---- MODULE Spec2Model ----
(***************************************************************************)
(* PersonalGram: the photo index (PhotoManager) over the KV namespace and  *)
(* the R2 bucket.  Strings are sequences of one-letter strings, photo ids  *)
(* and page sizes are small integers, the id 0 stands for "no id"          *)
(* (undefined or the empty string, both falsy in the source).              *)
(***************************************************************************)
EXTENDS Integers, Sequences, FiniteSets, TLC

\* ------------------------------------------------------------------ bounds
MaxIds == 3
MaxLimit == 3
MaxRequests == 3
MaxClock == 3
MaxTokens == 2

\* ------------------------------------------------------------------ inputs
Ids == 1..MaxIds
NoId == 0
Cursors == Ids \cup {NoId}
Limits == 0..MaxLimit

\* description and tags of the uploaded photos
PhotoInputs ==
  { [description |-> <<"A", "b">>, tags |-> << <<"a">> >>],
    [description |-> <<>>, tags |-> << <<"A">>, <<"b", "a">> >>] }
\* one of them, for the specifications that do not read what a record holds
PlainInputs == { [description |-> <<"A", "b">>, tags |-> << <<"a">> >>] }
Queries == { <<>>, <<"a">>, <<"A", "B">> }
NoTags == [present |-> FALSE, value |-> <<>>]
SomeTags(t) == [present |-> TRUE, value |-> t]
TagFilters == {NoTags} \cup { SomeTags(t) : t \in { <<>>, << <<"a">> >>, << <<"B">>, <<"A">> >> } }

\* the q and tags parameters of GET /api/photos as the URL carries them:
\* absent, or present with a raw value (tags separated by commas)
NoParam == [present |-> FALSE, value |-> <<>>]
SomeParam(v) == [present |-> TRUE, value |-> v]
QueryParams == {NoParam, SomeParam(<<>>), SomeParam(<<"a">>)}
TagParams == {NoParam, SomeParam(<<>>), SomeParam(<<"B", ",", ",", "A">>)}
\* its cursor parameter: absent, or a photo id
ReadCursors == {NoId, 1}

\* the session ids createSession can draw, and a cookie value that is none
Tokens == 1..MaxTokens
ForgedToken == MaxIds + 1

\* identities, secrets and bcrypt salts of the setup and login requests
Emails == {"admin", "other"}
Passwords == {"secret", "guess"}
Salts == {"salt1", "salt2"}
\* 24 * 60 * 60 * 1000 ms, in clock ticks of twelve hours
SessionTTL == 2

\* number of the store call that throws; 0: no store call throws
NoFail == 0
StoreCalls == 1..5

\* ----------------------------------------------------------------- strings
toLowerCase(s) ==
  [i \in 1..Len(s) |-> CASE s[i] = "A" -> "a" [] s[i] = "B" -> "b" [] OTHER -> s[i]]

includes(s, sub) ==
  \E i \in 0..(Len(s) - Len(sub)) : SubSeq(s, i + 1, i + Len(sub)) = sub

arrayIncludes(arr, x) == \E i \in 1..Len(arr) : arr[i] = x

indexOf(arr, x) ==
  IF arrayIncludes(arr, x)
  THEN (CHOOSE i \in 1..Len(arr) : arr[i] = x /\ \A j \in 1..(i - 1) : arr[j] # x) - 1
  ELSE -1

\* Array.prototype.slice(start, end) for 0 <= start, zero-based, end excluded
slice(arr, start, end) ==
  LET hi == IF end < Len(arr) THEN end ELSE Len(arr)
  IN  IF start >= hi THEN <<>> ELSE SubSeq(arr, start + 1, hi)

\* a push instead of the unshift
unshift_push(arr, x) == arr \o <<x>>

unshift(arr, x) == <<x>> \o arr

\* splice(indexOf(x), 1) instead of the filter: index -1 removes the last id
filterOut_splice(arr, x) ==
  IF \E i \in 1..Len(arr) : arr[i] = x
  THEN SelectSeq(arr, LAMBDA id : id # x)
  ELSE SubSeq(arr, 1, Len(arr) - 1)

filterOut(arr, x) == SelectSeq(arr, LAMBDA id : id # x)

\* -------------------------------------------------------------------- keys
ADMIN_CREDENTIALS == <<"admin:credentials", 0>>
PHOTO_LIST == <<"photos:list", 0>>
\* every record under the bare prefix
PhotoKey_noId(id) == <<"photo:", 0>>

PhotoKey(id) == <<"photo:", id>>
SessionKey(token) == <<"session:", token>>
OriginalKey(id) == <<id, "original.jpg">>
ThumbnailKey(id) == <<id, "thumbnail.jpg">>

\* ------------------------------------------------------------------- state
VARIABLES
  kv,         \* the KV namespace: key -> stored value, absent keys not in the domain
  r2,         \* the R2 bucket: the set of object keys that hold an object
  usedIds,    \* the ids crypto.randomUUID() has handed out so far
  now,        \* Date.now()
  response,   \* what the last operation returned to its caller
  pager,      \* a reader that pages through the list by chaining nextCursor
  procs,      \* the requests that run their store calls interleaved with others
  sessionLog, \* history: the tokens issued, with their time, and those logged out
  uploadLog,  \* history: ids of the uploads that returned, oldest first
  deleteLog   \* history: ids for which deletePhoto returned

vars == <<kv, r2, usedIds, now, response, pager, procs, sessionLog, uploadLog, deleteLog>>

\* ---------------------------------------------------------------- KV store
KVhas(store, key) == key \in DOMAIN store
KVput(store, key, value) ==
  [k \in DOMAIN store \cup {key} |-> IF k = key THEN value ELSE store[k]]
\* the key stays stored
KVdelete_keeps(store, key) == store

KVdelete(store, key) == [k \in DOMAIN store \ {key} |-> store[k]]

EmptyKV == [k \in {} |-> <<>>]

\* listJson ? JSON.parse(listJson) : []
photoListOf(store) == IF KVhas(store, PHOTO_LIST) THEN store[PHOTO_LIST] ELSE <<>>
photoList == photoListOf(kv)

\* ---------------------------------------------------------------- responses
NoResponse ==
  [op |-> "none", failedCall |-> NoFail, id |-> NoId, cursor |-> NoId, limit |-> 0,
   query |-> <<>>, tags |-> NoTags, photos |-> <<>>, nextCursor |-> NoId,
   hasMore |-> FALSE, again |-> FALSE, status |-> "ok", token |-> NoId,
   email |-> "", password |-> "", q |-> NoParam, tagsParam |-> NoParam]

Failed(resp) == resp.failedCall # NoFail

idsOf(photos) == [i \in 1..Len(photos) |-> photos[i].id]

\* ------------------------------------------------------------------- pager
\* PhotoApp: photos (their ids), nextCursor, hasMore; calls counts the pages
\* loaded, clean tells that the store has not been written since the first
\* page was loaded.  History: first is the order list at the first page,
\* writtenAt the number of pages loaded when the store was first written
\* after it, deleted tells that a deletePhoto ran after it.
NoPager ==
  [limit |-> 0, nextCursor |-> NoId, hasMore |-> TRUE, photos |-> <<>>,
   calls |-> 0, clean |-> TRUE, first |-> <<>>, writtenAt |-> 0,
   deleted |-> FALSE]

storeWritten(pg) ==
  IF pg.calls > 0
  THEN [pg EXCEPT !.clean = FALSE,
                  !.writtenAt = IF pg.clean THEN pg.calls ELSE pg.writtenAt]
  ELSE pg

storeDeleted(pg) ==
  IF pg.calls > 0 THEN [storeWritten(pg) EXCEPT !.deleted = TRUE] ELSE pg

\* ------------------------------------------------------------- uploadPhoto
NewPhoto(photoId, description, tags, timestamp) ==
  [id |-> photoId, originalUrl |-> OriginalKey(photoId),
   thumbnailUrl |-> ThumbnailKey(photoId), description |-> description,
   tags |-> tags, uploadedAt |-> timestamp]

\* the list is read and changed but not written back
addToPhotoList_unsaved(store, photoId) == store

\* the id is put at the end of the list
addToPhotoList_atEnd(store, photoId) ==
  KVput(store, PHOTO_LIST, photoListOf(store) \o <<photoId>>)

addToPhotoList(store, photoId) ==
  KVput(store, PHOTO_LIST, unshift(photoListOf(store), photoId))

\* the store calls of uploadPhoto, in order: R2.put original, R2.put
\* thumbnail, KV.put photo:<id>, KV.get photos:list, KV.put photos:list.
\* A call that throws has no effect and ends the operation.
\* the calls after the one that threw are made all the same
UploadDone_runsOn(failAt) == 5

UploadDone(failAt) == IF failAt = NoFail THEN 5 ELSE failAt - 1

uploadR2(photoId, failAt) ==
  r2 \cup (IF UploadDone(failAt) >= 1 THEN {OriginalKey(photoId)} ELSE {})
     \cup (IF UploadDone(failAt) >= 2 THEN {ThumbnailKey(photoId)} ELSE {})

uploadKV(photoId, description, tags, failAt) ==
  LET kv1 == IF UploadDone(failAt) >= 3
             THEN KVput(kv, PhotoKey(photoId), NewPhoto(photoId, description, tags, now))
             ELSE kv
  IN  IF UploadDone(failAt) >= 5 THEN addToPhotoList(kv1, photoId) ELSE kv1

\* an id that was handed out before is drawn again
freshPhotoId_repeats(photoId) == TRUE

\* crypto.randomUUID(): an id that was not handed out before
freshPhotoId(photoId) == photoId \notin usedIds

UploadPhoto(photoId, description, tags, failAt) ==
  /\ freshPhotoId(photoId)
  /\ usedIds' = usedIds \cup {photoId}
  /\ r2' = uploadR2(photoId, failAt)
  /\ kv' = uploadKV(photoId, description, tags, failAt)
  /\ response' = [NoResponse EXCEPT !.op = "uploadPhoto", !.id = photoId,
                                    !.failedCall = failAt]
  /\ uploadLog' = IF failAt = NoFail THEN Append(uploadLog, photoId) ELSE uploadLog
  /\ pager' = storeWritten(pager)
  /\ UNCHANGED <<now, sessionLog, procs, deleteLog>>

\* ------------------------------------------------------------- deletePhoto
\* the store calls of deletePhoto, in order: R2.delete original, R2.delete
\* thumbnail, KV.delete photo:<id>, KV.get photos:list, KV.put photos:list
\* (the last one only when photos:list is stored).
DeleteDone(failAt) == IF failAt = NoFail THEN 5 ELSE failAt - 1

\* the blobs of every photo are removed
deleteR2_wholeBucket(photoId, failAt) == {}

deleteR2(photoId, failAt) ==
  (r2 \ (IF DeleteDone(failAt) >= 1 THEN {OriginalKey(photoId)} ELSE {}))
      \ (IF DeleteDone(failAt) >= 2 THEN {ThumbnailKey(photoId)} ELSE {})

\* only the blobs are removed
deleteKV_blobsOnly(photoId, failAt) == kv

deleteKV(photoId, failAt) ==
  LET kv1 == IF DeleteDone(failAt) >= 3 THEN KVdelete(kv, PhotoKey(photoId)) ELSE kv
  IN  IF DeleteDone(failAt) >= 5 /\ KVhas(kv1, PHOTO_LIST)
      THEN KVput(kv1, PHOTO_LIST, filterOut(kv1[PHOTO_LIST], photoId))
      ELSE kv1

DeletePhoto(photoId, failAt) ==
  /\ failAt = 5 => KVhas(kv, PHOTO_LIST)
  /\ r2' = deleteR2(photoId, failAt)
  /\ kv' = deleteKV(photoId, failAt)
  /\ response' = [NoResponse EXCEPT !.op = "deletePhoto", !.id = photoId,
                                    !.failedCall = failAt,
                                    !.again = (photoId \in deleteLog)]
  /\ deleteLog' = IF failAt = NoFail THEN deleteLog \cup {photoId} ELSE deleteLog
  /\ usedIds' = usedIds \cup {photoId}
  /\ pager' = storeDeleted(pager)
  /\ UNCHANGED <<now, sessionLog, procs, uploadLog>>

\* --------------------------------------------------------------- getPhotos
\* resumes at the cursor instead of after it
startIndexOf_atCursor(list, cursor) ==
  IF cursor # NoId /\ indexOf(list, cursor) # -1 THEN indexOf(list, cursor) ELSE 0

\* an unknown cursor gives the page after the end of the list
startIndexOf_unknownAtEnd(list, cursor) ==
  IF cursor = NoId THEN 0
  ELSE IF indexOf(list, cursor) # -1 THEN indexOf(list, cursor) + 1 ELSE Len(list)

startIndexOf(list, cursor) ==
  IF cursor # NoId /\ indexOf(list, cursor) # -1 THEN indexOf(list, cursor) + 1 ELSE 0

\* the slice of ids getPhotos takes from the order list
photoIdsOf(list, cursor, limit) ==
  slice(list, startIndexOf(list, cursor), startIndexOf(list, cursor) + limit)

\* the loop ends at the first id without a record
fetchPhotos_stopAtMissing(store, ids) ==
  LET missing == {i \in 1..Len(ids) : ~KVhas(store, PhotoKey(ids[i]))}
      kept == IF missing = {} THEN ids
              ELSE SubSeq(ids, 1, (CHOOSE i \in missing : \A j \in missing : i <= j) - 1)
  IN  [i \in 1..Len(kept) |-> store[PhotoKey(kept[i])]]

\* the records of the ids that have one, in the order of the ids
fetchPhotos(store, ids) ==
  LET kept == SelectSeq(ids, LAMBDA id : KVhas(store, PhotoKey(id)))
  IN  [i \in 1..Len(kept) |-> store[PhotoKey(kept[i])]]

\* endIndex <= photoList.length
hasMoreOf_orEqual(list, cursor, limit) == startIndexOf(list, cursor) + limit <= Len(list)

hasMoreOf(list, cursor, limit) == startIndexOf(list, cursor) + limit < Len(list)

\* nextCursor is the last id of the slice whether or not there are more
getPhotos_alwaysCursor(store, cursor, limit) ==
  IF ~KVhas(store, PHOTO_LIST)
  THEN [photos |-> <<>>, nextCursor |-> NoId, hasMore |-> FALSE]
  ELSE LET list == store[PHOTO_LIST]
           photoIds == photoIdsOf(list, cursor, limit)
       IN  [photos |-> fetchPhotos(store, photoIds),
            nextCursor |-> IF Len(photoIds) > 0 THEN photoIds[Len(photoIds)] ELSE NoId,
            hasMore |-> hasMoreOf(list, cursor, limit)]

getPhotos(store, cursor, limit) ==
  IF ~KVhas(store, PHOTO_LIST)
  THEN [photos |-> <<>>, nextCursor |-> NoId, hasMore |-> FALSE]
  ELSE LET list == store[PHOTO_LIST]
           photoIds == photoIdsOf(list, cursor, limit)
           hasMore == hasMoreOf(list, cursor, limit)
       IN  [photos |-> fetchPhotos(store, photoIds),
            nextCursor |-> IF hasMore /\ Len(photoIds) > 0
                           THEN photoIds[Len(photoIds)] ELSE NoId,
            hasMore |-> hasMore]

GetPhotos(cursor, limit) ==
  /\ response' = [NoResponse EXCEPT !.op = "getPhotos", !.cursor = cursor,
                    !.limit = limit,
                    !.photos = getPhotos(kv, cursor, limit).photos,
                    !.nextCursor = getPhotos(kv, cursor, limit).nextCursor,
                    !.hasMore = getPhotos(kv, cursor, limit).hasMore]
  /\ UNCHANGED <<kv, r2, usedIds, now, sessionLog, pager, procs, uploadLog, deleteLog>>

\* ------------------------------------------------------------ searchPhotos
\* the query is compared as typed, only the record's text is lower-cased
matchesQuery_queryAsTyped(photo, query) ==
  \/ query = <<>>
  \/ includes(toLowerCase(photo.description), query)
  \/ \E i \in 1..Len(photo.tags) : includes(toLowerCase(photo.tags[i]), query)

matchesQuery(photo, query) ==
  \/ query = <<>>
  \/ includes(toLowerCase(photo.description), toLowerCase(query))
  \/ \E i \in 1..Len(photo.tags) :
       includes(toLowerCase(photo.tags[i]), toLowerCase(query))

\* the tags are compared in lower case
matchesTags_lowerCase(photo, tags) ==
  \/ ~tags.present
  \/ Len(tags.value) = 0
  \/ \E i \in 1..Len(tags.value), j \in 1..Len(photo.tags) :
       toLowerCase(photo.tags[j]) = toLowerCase(tags.value[i])

matchesTags(photo, tags) ==
  \/ ~tags.present
  \/ Len(tags.value) = 0
  \/ \E i \in 1..Len(tags.value) : arrayIncludes(photo.tags, tags.value[i])

\* photos.length > limit
limitReached_oneMore(photos, limit) == Len(photos) > limit

limitReached(photos, limit) == Len(photos) >= limit

\* the loop over photoList from its i-th id on, photos collected so far
RECURSIVE searchFrom(_, _, _, _, _, _, _)
searchFrom(store, list, i, query, tags, limit, photos) ==
  IF i > Len(list) \/ limitReached(photos, limit) THEN photos
  ELSE IF ~KVhas(store, PhotoKey(list[i]))
       THEN searchFrom(store, list, i + 1, query, tags, limit, photos)
       ELSE LET photo == store[PhotoKey(list[i])]
            IN  IF matchesQuery(photo, query) /\ matchesTags(photo, tags)
                THEN searchFrom(store, list, i + 1, query, tags, limit,
                                Append(photos, photo))
                ELSE searchFrom(store, list, i + 1, query, tags, limit, photos)

searchPhotos(store, query, tags, limit) ==
  IF ~KVhas(store, PHOTO_LIST) THEN <<>>
  ELSE searchFrom(store, store[PHOTO_LIST], 1, query, tags, limit, <<>>)

SearchPhotos(query, tags, limit) ==
  /\ response' = [NoResponse EXCEPT !.op = "searchPhotos", !.query = query,
                    !.tags = tags, !.limit = limit,
                    !.photos = searchPhotos(kv, query, tags, limit)]
  /\ UNCHANGED <<kv, r2, usedIds, now, sessionLog, pager, procs, uploadLog, deleteLog>>

\* ------------------------------------------- handleApiRequest (GET /api/photos)
\* String.prototype.split(',')
RECURSIVE split(_)
split(s) ==
  IF \A i \in 1..Len(s) : s[i] # ","
  THEN <<s>>
  ELSE LET i == CHOOSE k \in 1..Len(s) : s[k] = "," /\ \A j \in 1..(k - 1) : s[j] # ","
       IN  <<SubSeq(s, 1, i - 1)>> \o split(SubSeq(s, i + 1, Len(s)))

\* url.searchParams.get('q') || undefined, as the string searchPhotos gets
\* (query || ''), and whether it is truthy
queryOf(q) == IF q.present THEN q.value ELSE <<>>
\* url.searchParams.get('tags')?.split(',').filter(Boolean) || undefined
tagsOf(t) ==
  IF t.present THEN SomeTags(SelectSeq(split(t.value), LAMBDA tag : tag # <<>>))
  ELSE NoTags

\* an empty array of tags counts as no tags
isSearch_emptyTagsFalsy(query, tags) == query # <<>> \/ (tags.present /\ tags.value # <<>>)

\* query || tags: a non-empty string, or an array (an empty one is truthy)
isSearch(query, tags) == query # <<>> \/ tags.present

PhotosRequest(cursor, limit, q, tagsParam) ==
  LET query == queryOf(q)
      tags == tagsOf(tagsParam)
      data == getPhotos(kv, cursor, limit)
  IN  /\ response' =
           IF isSearch(query, tags)
           THEN [NoResponse EXCEPT !.op = "photos", !.cursor = cursor, !.limit = limit,
                   !.q = q, !.tagsParam = tagsParam,
                   !.photos = searchPhotos(kv, query, tags, limit)]
           ELSE [NoResponse EXCEPT !.op = "photos", !.cursor = cursor, !.limit = limit,
                   !.q = q, !.tagsParam = tagsParam,
                   !.photos = data.photos, !.nextCursor = data.nextCursor,
                   !.hasMore = data.hasMore]
      /\ UNCHANGED <<kv, r2, usedIds, now, sessionLog, pager, procs, uploadLog, deleteLog>>

\* ------------------------------------------------------- paging (PhotoApp)
\* a new reader: nextCursor = null, hasMore = true, then the first loadPhotos
StartPaging(limit) ==
  LET data == getPhotos(kv, NoId, limit)
  IN  /\ pager' = [limit |-> limit, nextCursor |-> data.nextCursor,
                   hasMore |-> data.hasMore, photos |-> idsOf(data.photos),
                   calls |-> 1, clean |-> TRUE, first |-> photoList,
                   writtenAt |-> 0, deleted |-> FALSE]
      /\ response' = [NoResponse EXCEPT !.op = "getPhotos", !.limit = limit,
                        !.photos = data.photos, !.nextCursor = data.nextCursor,
                        !.hasMore = data.hasMore]
      /\ UNCHANGED <<kv, r2, usedIds, now, sessionLog, procs, uploadLog, deleteLog>>

\* loadPhotos with the cursor of the page before
LoadPhotos ==
  LET data == getPhotos(kv, pager.nextCursor, pager.limit)
  IN  /\ pager.calls > 0
      /\ pager.hasMore
      /\ pager' = [pager EXCEPT
                     !.photos = IF pager.nextCursor = NoId THEN idsOf(data.photos)
                                ELSE pager.photos \o idsOf(data.photos),
                     !.nextCursor = data.nextCursor,
                     !.hasMore = data.hasMore,
                     !.calls = pager.calls + 1]
      /\ response' = [NoResponse EXCEPT !.op = "getPhotos",
                        !.cursor = pager.nextCursor, !.limit = pager.limit,
                        !.photos = data.photos, !.nextCursor = data.nextCursor,
                        !.hasMore = data.hasMore]
      /\ UNCHANGED <<kv, r2, usedIds, now, sessionLog, procs, uploadLog, deleteLog>>

\* ------------------------------------------------------------ AuthManager
\* bcrypt.hash(password, 10) with the salt it draws, and bcrypt.compare
hashPassword(password, salt) == [salt |-> salt, of |-> password]
verifyPassword(password, hash) == hash.of = password

initializeAdmin(store, email, password, salt) ==
  KVput(store, ADMIN_CREDENTIALS,
        [email |-> email, password |-> hashPassword(password, salt)])

\* only the password is checked
authenticateAdmin_anyEmail(store, email, password) ==
  /\ KVhas(store, ADMIN_CREDENTIALS)
  /\ verifyPassword(password, store[ADMIN_CREDENTIALS].password)

authenticateAdmin(store, email, password) ==
  /\ KVhas(store, ADMIN_CREDENTIALS)
  /\ store[ADMIN_CREDENTIALS].email = email
  /\ verifyPassword(password, store[ADMIN_CREDENTIALS].password)

createSession(store, sessionId, email, time) ==
  KVput(store, SessionKey(sessionId), [email |-> email, expiresAt |-> time + SessionTTL])

\* the result of validateSession: the session or none, and the store it leaves
validateSession(store, sessionId, time) ==
  IF ~KVhas(store, SessionKey(sessionId))
  THEN [valid |-> FALSE, email |-> "", store |-> store]
  ELSE IF store[SessionKey(sessionId)].expiresAt < time
       THEN [valid |-> FALSE, email |-> "",
             store |-> KVdelete(store, SessionKey(sessionId))]
       ELSE [valid |-> TRUE, email |-> store[SessionKey(sessionId)].email,
             store |-> store]

deleteSession(store, sessionId) == KVdelete(store, SessionKey(sessionId))

\* ------------------------------------------------- handleApiRequest (auth)
\* what a request can carry as its session cookie: nothing, a value that
\* never was a session id, or a session id that was issued
Cookies ==
  {NoId, ForgedToken} \cup {it[1] : it \in sessionLog.issued}

\* the check of /api/auth/init finds no credential, whatever is stored
adminExists_never(store) == FALSE

adminExists(store) == KVhas(store, ADMIN_CREDENTIALS)

InitRequest(email, password, salt) ==
  /\ kv' = IF adminExists(kv) THEN kv ELSE initializeAdmin(kv, email, password, salt)
  /\ response' = [NoResponse EXCEPT !.op = "init", !.email = email,
                    !.password = password,
                    !.status = IF adminExists(kv) THEN "conflict" ELSE "ok"]
  /\ UNCHANGED <<r2, usedIds, now, pager, procs, sessionLog, uploadLog, deleteLog>>

\* a session id that was handed out before is drawn again
freshSessionId_repeats(sessionId) == TRUE

\* crypto.randomUUID(): an id that was not handed out before
freshSessionId(sessionId) == sessionId \notin usedIds

LoginRequest(email, password, sessionId) ==
  /\ freshSessionId(sessionId)
  /\ IF authenticateAdmin(kv, email, password)
     THEN /\ kv' = createSession(kv, sessionId, email, now)
          /\ usedIds' = usedIds \cup {sessionId}
          /\ sessionLog' = [sessionLog EXCEPT !.issued = @ \cup {<<sessionId, now>>}]
          /\ response' = [NoResponse EXCEPT !.op = "login", !.email = email,
                            !.password = password, !.token = sessionId]
     ELSE /\ response' = [NoResponse EXCEPT !.op = "login", !.email = email,
                            !.password = password, !.status = "invalid"]
          /\ UNCHANGED <<kv, usedIds, sessionLog>>
  /\ UNCHANGED <<r2, now, pager, procs, uploadLog, deleteLog>>

LogoutRequest(token) ==
  /\ token \in Cookies
  /\ kv' = IF token # NoId THEN deleteSession(kv, token) ELSE kv
  /\ sessionLog' = [sessionLog EXCEPT !.revoked = @ \cup ({token} \ {NoId})]
  /\ response' = [NoResponse EXCEPT !.op = "logout", !.token = token]
  /\ UNCHANGED <<r2, usedIds, now, pager, procs, uploadLog, deleteLog>>

\* every request is let through
gate_open(store, token, time) == [valid |-> TRUE, email |-> "", store |-> store]

\* sessionId ? await authManager.validateSession(sessionId) : null
gate(store, token, time) ==
  IF token # NoId THEN validateSession(store, token, time)
  ELSE [valid |-> FALSE, email |-> "", store |-> store]

\* a request for a protected route that is neither upload nor delete: the
\* session check alone, 401 without a session and 404 with one
ValidateSession(token) ==
  /\ token \in Cookies
  /\ kv' = gate(kv, token, now).store
  /\ response' = [NoResponse EXCEPT !.op = "validateSession", !.token = token,
                    !.email = gate(kv, token, now).email,
                    !.status = IF gate(kv, token, now).valid THEN "ok"
                               ELSE "unauthorized"]
  /\ UNCHANGED <<r2, usedIds, now, pager, procs, sessionLog, uploadLog, deleteLog>>

Unauthorized(op, token, photoId) ==
  /\ kv' = gate(kv, token, now).store
  /\ response' = [NoResponse EXCEPT !.op = op, !.token = token, !.id = photoId,
                                    !.status = "unauthorized"]
  /\ UNCHANGED <<r2, usedIds, now, pager, procs, sessionLog, uploadLog, deleteLog>>

UploadRequest(token, photoId, description, tags) ==
  /\ token \in Cookies
  /\ IF gate(kv, token, now).valid
     THEN /\ photoId \in Ids \ usedIds
          /\ usedIds' = usedIds \cup {photoId}
          /\ r2' = uploadR2(photoId, NoFail)
          /\ kv' = uploadKV(photoId, description, tags, NoFail)
          /\ response' = [NoResponse EXCEPT !.op = "uploadPhoto", !.id = photoId,
                                            !.token = token]
          /\ uploadLog' = Append(uploadLog, photoId)
          /\ pager' = storeWritten(pager)
          /\ UNCHANGED <<now, procs, sessionLog, deleteLog>>
     ELSE photoId = NoId /\ Unauthorized("uploadPhoto", token, NoId)

DeleteRequest(token, photoId) ==
  /\ token \in Cookies
  /\ IF gate(kv, token, now).valid
     THEN /\ r2' = deleteR2(photoId, NoFail)
          /\ kv' = deleteKV(photoId, NoFail)
          /\ response' = [NoResponse EXCEPT !.op = "deletePhoto", !.id = photoId,
                                            !.token = token,
                                            !.again = (photoId \in deleteLog)]
          /\ deleteLog' = deleteLog \cup {photoId}
          /\ usedIds' = usedIds \cup {photoId}
          /\ pager' = storeDeleted(pager)
          /\ UNCHANGED <<now, procs, sessionLog, uploadLog>>
     ELSE Unauthorized("deletePhoto", token, photoId)

Tick ==
  /\ now < MaxClock
  /\ now' = now + 1
  /\ UNCHANGED <<kv, r2, usedIds, response, pager, procs, sessionLog, uploadLog, deleteLog>>

\* ------------------------------------------------- interleaved store calls
\* A request of procs is an uploadPhoto or a deletePhoto that runs one store
\* call per step.  pc = 0: not started; pc = k in 1..5: its k-th store call
\* is next; pc = 6: it has returned.  list is the photoList it read,
\* racedWith (history) the uploads that had read photos:list and not yet
\* written it when this request read it, unfinished (history) the uploads of
\* the same id that had not returned when this delete started.
Requests == 1..MaxRequests

NoRequest ==
  [op |-> "none", pc |-> 0, id |-> NoId, description |-> <<>>, tags |-> <<>>,
   list |-> <<>>, racedWith |-> {}, unfinished |-> {}, email |-> "",
   password |-> "", salt |-> "", status |-> ""]

Started(r) == procs[r].op # "none"
Returned(r) == procs[r].pc = 6

\* requests are numbered in the order in which they start
MayStart(r) == ~Started(r) /\ \A q \in Requests : q < r => Started(q)

StartUpload(r, photoId, description, tags) ==
  /\ MayStart(r)
  /\ freshPhotoId(photoId)
  /\ usedIds' = usedIds \cup {photoId}
  /\ procs' = [procs EXCEPT ![r] = [NoRequest EXCEPT !.op = "uploadPhoto",
                  !.pc = 1, !.id = photoId, !.description = description,
                  !.tags = tags]]
  /\ UNCHANGED <<kv, r2, now, sessionLog, response, pager, uploadLog, deleteLog>>

StartDelete(r, photoId) ==
  /\ MayStart(r)
  /\ usedIds' = usedIds \cup {photoId}
  /\ procs' = [procs EXCEPT ![r] = [NoRequest EXCEPT !.op = "deletePhoto",
                  !.pc = 1, !.id = photoId,
                  !.unfinished = {q \in Requests : /\ procs[q].op = "uploadPhoto"
                                                    /\ procs[q].id = photoId
                                                    /\ ~Returned(q)}]]
  /\ UNCHANGED <<kv, r2, now, sessionLog, response, pager, uploadLog, deleteLog>>

\* the uploads that have read photos:list and not written it
ReadNotWritten == {q \in Requests : procs[q].op = "uploadPhoto" /\ procs[q].pc = 5}

\* the list an upload writes back: the list it read with its id in front
\* (the mutant reads photos:list again when it writes)
listToWrite_readAgain(r) == unshift(photoListOf(kv), procs[r].id)

listToWrite(r) == unshift(procs[r].list, procs[r].id)

\* the order list is written before the record: calls 1, 2, 4, 5, 3
uploadCallAt_listFirst(pc) ==
  CASE pc = 3 -> 4 [] pc = 4 -> 5 [] pc = 5 -> 3 [] OTHER -> pc

\* the store call uploadPhoto makes at position pc: R2.put original, R2.put
\* thumbnail, KV.put photo:<id>, KV.get photos:list, KV.put photos:list
uploadCallAt(pc) == pc

UploadStep(r) ==
  LET p == procs[r]
      call == uploadCallAt(p.pc)
  IN  /\ p.op = "uploadPhoto" /\ p.pc \in StoreCalls
      /\ r2' = CASE call = 1 -> r2 \cup {OriginalKey(p.id)}
                  [] call = 2 -> r2 \cup {ThumbnailKey(p.id)}
                  [] OTHER -> r2
      /\ kv' = CASE call = 3 -> KVput(kv, PhotoKey(p.id),
                                      NewPhoto(p.id, p.description, p.tags, now))
                  [] call = 5 -> KVput(kv, PHOTO_LIST, listToWrite(r))
                  [] OTHER -> kv
      /\ procs' = [procs EXCEPT ![r] =
                     IF call = 4
                     THEN [p EXCEPT !.pc = p.pc + 1, !.list = photoListOf(kv),
                                    !.racedWith = ReadNotWritten]
                     ELSE [p EXCEPT !.pc = p.pc + 1]]
      /\ response' = IF p.pc = 5
                     THEN [NoResponse EXCEPT !.op = "uploadPhoto", !.id = p.id]
                     ELSE response
      /\ uploadLog' = IF p.pc = 5 THEN Append(uploadLog, p.id) ELSE uploadLog
      /\ pager' = storeWritten(pager)
      /\ UNCHANGED <<usedIds, now, sessionLog, deleteLog>>

\* the next store call of an upload throws: no effect, the request ends
UploadFails(r) ==
  LET p == procs[r]
  IN  /\ p.op = "uploadPhoto" /\ p.pc \in StoreCalls
      /\ procs' = [procs EXCEPT ![r] = [p EXCEPT !.pc = 6, !.status = "error"]]
      /\ response' = [NoResponse EXCEPT !.op = "uploadPhoto", !.id = p.id,
                                        !.failedCall = uploadCallAt(p.pc)]
      /\ UNCHANGED <<kv, r2, usedIds, now, pager, sessionLog, uploadLog, deleteLog>>

DeleteStep(r) ==
  LET p == procs[r]
      \* the call after which deletePhoto returns
      last == (p.pc = 5) \/ (p.pc = 4 /\ ~KVhas(kv, PHOTO_LIST))
  IN  /\ p.op = "deletePhoto" /\ p.pc \in StoreCalls
      /\ r2' = CASE p.pc = 1 -> r2 \ {OriginalKey(p.id)}
                  [] p.pc = 2 -> r2 \ {ThumbnailKey(p.id)}
                  [] OTHER -> r2
      /\ kv' = CASE p.pc = 3 -> KVdelete(kv, PhotoKey(p.id))
                  [] p.pc = 5 -> KVput(kv, PHOTO_LIST, filterOut(p.list, p.id))
                  [] OTHER -> kv
      /\ procs' = [procs EXCEPT ![r] =
                     IF p.pc = 4
                     THEN [p EXCEPT !.pc = IF last THEN 6 ELSE 5,
                                    !.list = photoListOf(kv)]
                     ELSE [p EXCEPT !.pc = p.pc + 1]]
      /\ response' = IF last
                     THEN [NoResponse EXCEPT !.op = "deletePhoto", !.id = p.id,
                                             !.again = (p.id \in deleteLog)]
                     ELSE response
      /\ deleteLog' = IF last THEN deleteLog \cup {p.id} ELSE deleteLog
      /\ pager' = storeDeleted(pager)
      /\ UNCHANGED <<usedIds, now, sessionLog, uploadLog>>

\* a setup request (/api/auth/init): pc = 1: KV.get admin:credentials is
\* next; pc = 2: the KV.put of initializeAdmin is next; pc = 6: answered
StartInit(r, email, password, salt) ==
  /\ MayStart(r)
  /\ procs' = [procs EXCEPT ![r] = [NoRequest EXCEPT !.op = "init", !.pc = 1,
                  !.email = email, !.password = password, !.salt = salt]]
  /\ UNCHANGED <<kv, r2, usedIds, now, response, pager, sessionLog, uploadLog, deleteLog>>

InitStep(r) ==
  LET p == procs[r]
  IN  /\ p.op = "init" /\ p.pc \in {1, 2}
      /\ kv' = IF p.pc = 2 THEN initializeAdmin(kv, p.email, p.password, p.salt)
                ELSE kv
      /\ procs' = [procs EXCEPT ![r] =
                     IF p.pc = 1
                     THEN IF adminExists(kv)
                          THEN [p EXCEPT !.pc = 6, !.status = "conflict"]
                          ELSE [p EXCEPT !.pc = 2]
                     ELSE [p EXCEPT !.pc = 6, !.status = "ok"]]
      /\ response' = IF procs'[r].pc = 6
                     THEN [NoResponse EXCEPT !.op = "init", !.email = p.email,
                            !.password = p.password, !.status = procs'[r].status]
                     ELSE response
      /\ UNCHANGED <<r2, usedIds, now, pager, sessionLog, uploadLog, deleteLog>>

\* ---------------------------------------------------------- specifications
Init ==
  /\ kv = EmptyKV
  /\ r2 = {}
  /\ usedIds = {}
  /\ now = 0
  /\ response = NoResponse
  /\ pager = NoPager
  /\ procs = [r \in Requests |-> NoRequest]
  /\ sessionLog = [issued |-> {}, revoked |-> {}]
  /\ uploadLog = <<>>
  /\ deleteLog = {}

Upload == \E id \in Ids, p \in PlainInputs : UploadPhoto(id, p.description, p.tags, NoFail)
UploadTagged == \E id \in Ids, p \in PhotoInputs : UploadPhoto(id, p.description, p.tags, NoFail)
Delete == \E id \in Ids : DeletePhoto(id, NoFail)

\* operations run one at a time, no store call fails
Next ==
  \/ Upload
  \/ Delete
  \/ \E c \in Cursors, n \in Limits : GetPhotos(c, n)

Spec == Init /\ [][Next]_vars

\* the same with searches of tagged photos
NextSearch ==
  \/ UploadTagged
  \/ Delete
  \/ \E q \in Queries, t \in TagFilters, n \in Limits : SearchPhotos(q, t, n)

SpecSearch == Init /\ [][NextSearch]_vars

\* the same with requests to the public read endpoint
NextRead ==
  \/ UploadTagged
  \/ Delete
  \/ \E c \in ReadCursors, n \in 1..MaxLimit, q \in QueryParams, t \in TagParams :
       PhotosRequest(c, n, q, t)

SpecRead == Init /\ [][NextRead]_vars

\* the same with a reader that pages through the list
NextPaging ==
  \/ Upload
  \/ Delete
  \/ \E n \in 1..MaxLimit : StartPaging(n)
  \/ LoadPhotos

SpecPaging == Init /\ [][NextPaging]_vars

\* operations run one at a time, any store call may throw
NextFail ==
  \/ \E id \in Ids, p \in PlainInputs, f \in {NoFail} \cup StoreCalls :
       UploadPhoto(id, p.description, p.tags, f)
  \/ \E id \in Ids, f \in {NoFail} \cup StoreCalls : DeletePhoto(id, f)

SpecFail == Init /\ [][NextFail]_vars

\* reads of a store that a failed delete may have left half-done
NextDrift ==
  \/ Upload
  \/ \E id \in Ids, f \in {NoFail} \cup StoreCalls : DeletePhoto(id, f)
  \/ \E n \in Limits : GetPhotos(NoId, n)
  \/ \E t \in {NoTags, SomeTags(<<>>)}, n \in Limits : SearchPhotos(<<>>, t, n)

SpecDrift == Init /\ [][NextDrift]_vars

\* pages of a list in which a delete that failed at the order list has left
\* ids without a record
NextSkip ==
  \/ Upload
  \/ \E id \in Ids, f \in {NoFail, 4, 5} : DeletePhoto(id, f)
  \/ \E c \in Cursors, n \in Limits : GetPhotos(c, n)

SpecSkip == Init /\ [][NextSkip]_vars

\* uploads and deletes whose store calls interleave, no store call fails
NextConc ==
  \/ \E r \in Requests, id \in Ids, p \in PlainInputs :
       StartUpload(r, id, p.description, p.tags)
  \/ \E r \in Requests, id \in Ids : StartDelete(r, id)
  \/ \E r \in Requests : UploadStep(r)
  \/ \E r \in Requests : DeleteStep(r)

SpecConc == Init /\ [][NextConc]_vars

\* the same, and a store call of an upload may throw
NextSteps ==
  \/ NextConc
  \/ \E r \in Requests : UploadFails(r)

SpecSteps == Init /\ [][NextSteps]_vars

\* setup, login, logout and session checks, one request at a time
AllCookies == Tokens \cup {NoId, ForgedToken}

NextAuth ==
  \/ \E e \in Emails, p \in Passwords : InitRequest(e, p, "salt1")
  \/ \E e \in Emails, p \in Passwords, t \in Tokens : LoginRequest(e, p, t)
  \/ \E t \in AllCookies : LogoutRequest(t)
  \/ \E t \in AllCookies : ValidateSession(t)
  \/ Tick

SpecAuth == Init /\ [][NextAuth]_vars

\* uploads and deletes behind the session check, with one session
GateCookies == {NoId, ForgedToken, 1}

NextGate ==
  \/ InitRequest("admin", "secret", "salt1")
  \/ LoginRequest("admin", "secret", 1)
  \/ LogoutRequest(1)
  \/ \E t \in GateCookies, id \in Cursors, p \in PlainInputs :
       UploadRequest(t, id, p.description, p.tags)
  \/ \E t \in GateCookies, id \in {uploadLog[i] : i \in 1..Len(uploadLog)} :
       DeleteRequest(t, id)
  \/ Tick

SpecGate == Init /\ [][NextGate]_vars

\* setup requests whose store calls interleave
NextInit ==
  \/ \E r \in Requests, e \in Emails, p \in Passwords, s \in Salts : StartInit(r, e, p, s)
  \/ \E r \in Requests : InitStep(r)

SpecInit == Init /\ [][NextInit]_vars

\* ------------------------------------------------------------------ claims
Reverse(s) == [i \in 1..Len(s) |-> s[Len(s) + 1 - i]]
Occurrences(list, id) == Cardinality({i \in 1..Len(list) : list[i] = id})
Uploaded == {uploadLog[i] : i \in 1..Len(uploadLog)}
\* the uploaded ids that were not deleted, oldest first
liveUploads == SelectSeq(uploadLog, LAMBDA id : id \notin deleteLog)
\* the ids of the records the last call returned
taken == idsOf(response.photos)
TakenReachesEnd ==
  \/ taken = <<>>
  \/ photoList # <<>> /\ taken[Len(taken)] = photoList[Len(photoList)]

\* C1: between operations that ran one at a time without a store failure,
\* every id of the order list has a stored record and every stored record's
\* id is in the order list exactly once.
C1_ListAndRecordsAgree ==
  /\ \A i \in 1..Len(photoList) : KVhas(kv, PhotoKey(photoList[i]))
  /\ \A id \in Ids : KVhas(kv, PhotoKey(id)) =>
       /\ kv[PhotoKey(id)].id = id
       /\ Occurrences(photoList, id) = 1

C1_Witness ==
  /\ Len(photoList) >= 2
  /\ deleteLog \cap Uploaded # {}
  /\ response.op = "uploadPhoto"

\* C2: a reader that loads the first page and then follows nextCursor while
\* hasMore, with no store write in between, has after each page exactly the
\* next ids in reverse upload order, and the chain ends with hasMore = FALSE
\* holding every uploaded id once, after at most one call per id plus one.
C2_PagingEnumeratesAll ==
  (pager.calls > 0 /\ pager.clean) =>
    LET all == Reverse(liveUploads)
        n == pager.calls * pager.limit
    IN  /\ pager.photos = SubSeq(all, 1, IF n < Len(all) THEN n ELSE Len(all))
        /\ pager.hasMore <=> n < Len(all)
        /\ pager.hasMore => pager.nextCursor = all[n]
        /\ ~pager.hasMore => pager.photos = all /\ pager.nextCursor = NoId
        /\ pager.calls <= Len(all) + 1

C2_Witness ==
  /\ pager.clean /\ pager.limit = 2 /\ pager.calls = 2 /\ ~pager.hasMore
  /\ Len(uploadLog) = 3 /\ deleteLog = {}
  /\ pager.photos = Reverse(uploadLog)

\* C3: when uploadPhoto has returned without error, the record is stored
\* under photo:<id>, the id is the head of the order list and the first
\* page of any size N >= 1 starts with that record.
C3_UploadIsHead ==
  (response.op = "uploadPhoto" /\ ~Failed(response)) =>
    /\ KVhas(kv, PhotoKey(response.id))
    /\ kv[PhotoKey(response.id)].id = response.id
    /\ photoList # <<>> /\ photoList[1] = response.id
    /\ \A n \in 1..MaxLimit :
         /\ getPhotos(kv, NoId, n).photos # <<>>
         /\ getPhotos(kv, NoId, n).photos[1] = kv[PhotoKey(response.id)]

C3_Witness ==
  /\ response.op = "uploadPhoto" /\ ~Failed(response)
  /\ Len(photoList) >= 2

\* C4: a getPhotos call made after deletePhoto(id) returned holds no record
\* with that id, whatever its cursor and limit.
C4_DeletedNotListed ==
  response.op = "getPhotos" =>
    \A i \in 1..Len(response.photos) : response.photos[i].id \notin deleteLog

C4_Witness ==
  /\ response.op = "getPhotos"
  /\ deleteLog \cap Uploaded # {}
  /\ response.cursor # NoId
  /\ Len(response.photos) >= 1

\* C5: a deletePhoto of an id that was deleted before, or that was never
\* stored, raises no error and leaves the KV store (order list and records)
\* and the blobs as they were.
C5_DeleteIdempotent ==
  [][(response'.op = "deletePhoto" /\ (response'.again \/ response'.id \notin usedIds))
       => (kv' = kv /\ r2' = r2 /\ ~Failed(response'))]_vars

C5_Witness ==
  /\ response.op = "deletePhoto" /\ response.again
  /\ response.id \in Uploaded
  /\ Len(photoList) >= 1

\* C6: when a blob removal (store call 1 or 2) fails in deletePhoto(id), the
\* record photo:<id> and the id's entry in the order list are removed all
\* the same.
C6_BlobFailureStillUnlists ==
  (response.op = "deletePhoto" /\ response.failedCall \in {1, 2}) =>
    /\ ~KVhas(kv, PhotoKey(response.id))
    /\ ~arrayIncludes(photoList, response.id)

\* C7: for a limit >= 1 getPhotos reports hasMore exactly when the ids it
\* took stop before the end of the order list.
C7_HasMoreIffNotAtEnd ==
  (response.op = "getPhotos" /\ response.limit >= 1) =>
    (response.hasMore <=> ~TakenReachesEnd)

C7_Witness ==
  /\ response.op = "getPhotos" /\ response.limit >= 1
  /\ response.hasMore /\ response.cursor # NoId

\* C8: for a limit >= 1 nextCursor is the last id taken, and there is none
\* when nothing was taken or the end of the list was reached; nextCursor is
\* present exactly when hasMore is true.
C8_NextCursorIsLastTaken ==
  (response.op = "getPhotos" /\ response.limit >= 1) =>
    /\ TakenReachesEnd => response.nextCursor = NoId
    /\ ~TakenReachesEnd => response.nextCursor = taken[Len(taken)]
    /\ (response.nextCursor # NoId) <=> response.hasMore

C8_Witness ==
  /\ response.op = "getPhotos" /\ response.limit >= 2
  /\ response.nextCursor # NoId /\ response.cursor = NoId

\* C9: with a cursor that is not in the order list getPhotos returns what it
\* returns without a cursor: the page at the head of the list.
C9_UnknownCursorFromHead ==
  (response.op = "getPhotos" /\ response.cursor # NoId
     /\ ~arrayIncludes(photoList, response.cursor)) =>
    LET head == getPhotos(kv, NoId, response.limit)
    IN  /\ response.photos = head.photos
        /\ response.nextCursor = head.nextCursor
        /\ response.hasMore = head.hasMore
        /\ idsOf(response.photos) =
             SubSeq(photoList, 1, IF response.limit < Len(photoList)
                                  THEN response.limit ELSE Len(photoList))

C9_Witness ==
  /\ response.op = "getPhotos"
  /\ response.cursor \in deleteLog \cap Uploaded
  /\ Len(response.photos) >= 2

\* C10: searchPhotos returns at most limit records, each stored, each
\* passing the query test (blank, or contained without regard to case in
\* the description or a tag) and the tag test (no filter, or a requested
\* tag is exactly one of the record's tags), in the order of the order list.
SameLetter(c, d) == c = d \/ {c, d} = {"a", "A"} \/ {c, d} = {"b", "B"}
ContainsAnyCase(s, q) ==
  \E i \in 0..(Len(s) - Len(q)) : \A j \in 1..Len(q) : SameLetter(s[i + j], q[j])
QueryHolds(photo, q) ==
  \/ q = <<>>
  \/ ContainsAnyCase(photo.description, q)
  \/ \E i \in 1..Len(photo.tags) : ContainsAnyCase(photo.tags[i], q)
TagsHold(photo, t) ==
  \/ ~t.present
  \/ t.value = <<>>
  \/ \E i \in 1..Len(t.value), j \in 1..Len(photo.tags) : t.value[i] = photo.tags[j]

C10_SearchSound ==
  response.op = "searchPhotos" =>
    /\ Len(response.photos) <= response.limit
    /\ \A i \in 1..Len(response.photos) :
         /\ arrayIncludes(photoList, response.photos[i].id)
         /\ response.photos[i] = kv[PhotoKey(response.photos[i].id)]
         /\ QueryHolds(response.photos[i], response.query)
         /\ TagsHold(response.photos[i], response.tags)
    /\ \A i, j \in 1..Len(response.photos) :
         i < j => indexOf(photoList, response.photos[i].id)
                    < indexOf(photoList, response.photos[j].id)

C10_Witness ==
  /\ response.op = "searchPhotos"
  /\ response.query # <<>> /\ response.tags.present /\ response.tags.value # <<>>
  /\ Len(response.photos) = 2 /\ response.limit = 3
  /\ Len(photoList) = 3

\* C11: searchPhotos returns exactly the first limit matching stored records
\* of the order list, in list order: none that precedes a returned one is
\* left out, and fewer than limit are returned only when there are no more.
matchingIds(q, t) ==
  SelectSeq(photoList, LAMBDA id :
    /\ KVhas(kv, PhotoKey(id))
    /\ QueryHolds(kv[PhotoKey(id)], q)
    /\ TagsHold(kv[PhotoKey(id)], t))

C11_SearchFirstMatches ==
  response.op = "searchPhotos" =>
    LET all == matchingIds(response.query, response.tags)
    IN  idsOf(response.photos) =
          SubSeq(all, 1, IF response.limit < Len(all) THEN response.limit ELSE Len(all))

C11_Witness ==
  /\ response.op = "searchPhotos"
  /\ response.query = <<"A", "B">>
  /\ response.limit = 1 /\ Len(response.photos) = 1
  /\ Len(matchingIds(response.query, response.tags)) = 2
  /\ photoList[1] # response.photos[1].id

\* C12 as stated: for every store state and limit >= 1 a search with a
\* blank query and no tags returns the records of the first page.
BlankSearch ==
  /\ response.op = "searchPhotos" /\ response.limit >= 1
  /\ response.query = <<>> /\ response.tags.value = <<>>

C12_BlankSearchIsFirstPage ==
  BlankSearch => response.photos = getPhotos(kv, NoId, response.limit).photos

\* C12 amended: the same for the store states in which every id of the
\* order list has a stored record.
EveryListedStored == \A i \in 1..Len(photoList) : KVhas(kv, PhotoKey(photoList[i]))

C12_BlankSearchIsFirstPageWhenStored ==
  (BlankSearch /\ EveryListedStored) =>
    response.photos = getPhotos(kv, NoId, response.limit).photos

C12_Witness ==
  /\ BlankSearch /\ EveryListedStored
  /\ response.limit = 2 /\ Len(photoList) = 3 /\ Len(response.photos) = 2
  /\ r2 # {} /\ Cardinality(r2) < 2 * Len(photoList)

\* C13: two uploads that both read photos:list before either wrote it: when
\* the second of them writes the list, the list holds its id and not the id
\* of the other upload, whose record is still stored (no delete of it was
\* asked for) and which no getPhotos or searchPhotos call returns.
DeleteAsked(id) == \E d \in Requests : procs[d].op = "deletePhoto" /\ procs[d].id = id
Raced(a, b) == a \in procs[b].racedWith \/ b \in procs[a].racedWith
\* request w writes photos:list in this step, after request o wrote it
LaterWrite(w, o) ==
  /\ w # o
  /\ procs[w].op = "uploadPhoto" /\ procs[w].pc = 5 /\ procs'[w].pc = 6
  /\ procs[o].op = "uploadPhoto" /\ procs[o].pc = 6
  /\ Raced(w, o)
  /\ ~DeleteAsked(procs[o].id)
Listed(store, id) ==
  \/ \E c \in Cursors, n \in Limits : arrayIncludes(idsOf(getPhotos(store, c, n).photos), id)
  \/ \E q \in Queries, t \in TagFilters, n \in Limits :
       arrayIncludes(idsOf(searchPhotos(store, q, t, n)), id)

C13_LastListWriteWins ==
  [][\A w, o \in Requests : LaterWrite(w, o) =>
       /\ arrayIncludes(photoListOf(kv'), procs[w].id)
       /\ ~arrayIncludes(photoListOf(kv'), procs[o].id)
       /\ KVhas(kv', PhotoKey(procs[o].id))
       /\ ~Listed(kv', procs[o].id)]_vars

C13_Witness ==
  \E w, o \in Requests :
    /\ w # o /\ Raced(w, o)
    /\ procs[w].op = "uploadPhoto" /\ procs[o].op = "uploadPhoto"
    /\ Returned(w) /\ Returned(o)
    /\ photoList = <<procs[w].id>>
    /\ KVhas(kv, PhotoKey(procs[o].id))

\* C20: from the step that stores photo:<id> to the step that removes it,
\* the value stored under photo:<id> does not change, and it holds the id
\* and the locators of that id.
C20_RecordNeverChanges ==
  [][\A id \in Ids :
       /\ (KVhas(kv, PhotoKey(id)) /\ KVhas(kv', PhotoKey(id)))
            => kv'[PhotoKey(id)] = kv[PhotoKey(id)]
       /\ KVhas(kv', PhotoKey(id)) =>
            /\ kv'[PhotoKey(id)].id = id
            /\ kv'[PhotoKey(id)].originalUrl = OriginalKey(id)
            /\ kv'[PhotoKey(id)].thumbnailUrl = ThumbnailKey(id)]_vars

C20_Witness ==
  /\ Len(uploadLog) >= 2 /\ deleteLog # {}
  /\ KVhas(kv, PhotoKey(uploadLog[1]))
  /\ ~arrayIncludes(photoList, uploadLog[1])

\* -------------------------------------------------------- claims on sessions
Issued(token) == \E it \in sessionLog.issued : it[1] = token
IssuedAt(token) == (CHOOSE it \in sessionLog.issued : it[1] = token)[2]
\* the step is a session check (a step of the clock keeps the old response)
ValidateStep == response'.op = "validateSession" /\ now' = now

\* C14: validateSession reports the session valid exactly when one is stored
\* under the token and now < expiresAt (at now = expiresAt: invalid).
C14_ValidIffBeforeExpiry ==
  [][ValidateStep =>
       (response'.status = "ok" <=>
          /\ KVhas(kv, SessionKey(response'.token))
          /\ now < kv[SessionKey(response'.token)].expiresAt)]_vars

\* C15: for an issued token validateSession reports invalid after the
\* token's deleteSession, and once 24 hours have passed since it was issued.
C15_InvalidAfterLogoutOrTTL ==
  [][(ValidateStep /\ Issued(response'.token)
        /\ (\/ response'.token \in sessionLog.revoked
            \/ now >= IssuedAt(response'.token) + SessionTTL))
       => response'.status # "ok"]_vars

\* C16: a setup request that finds an admin credential stored reports
\* Conflict and leaves admin:credentials as it was.
C16_SecondInitRefused ==
  [][(response'.op = "init" /\ now' = now /\ KVhas(kv, ADMIN_CREDENTIALS)) =>
       /\ response'.status = "conflict"
       /\ KVhas(kv', ADMIN_CREDENTIALS)
       /\ kv'[ADMIN_CREDENTIALS] = kv[ADMIN_CREDENTIALS]
       /\ kv' = kv]_vars

C16_Witness ==
  /\ response.op = "init" /\ response.status = "conflict"
  /\ kv[ADMIN_CREDENTIALS].email # response.email
  /\ kv[ADMIN_CREDENTIALS].password.of # response.password

\* C17: in every execution, overlapping setup requests included, the value
\* of admin:credentials never changes once written and at most one setup
\* request reports success.
C17_CredentialCreatedOnce ==
  [][/\ KVhas(kv, ADMIN_CREDENTIALS) =>
          (KVhas(kv', ADMIN_CREDENTIALS)
             /\ kv'[ADMIN_CREDENTIALS] = kv[ADMIN_CREDENTIALS])
     /\ Cardinality({r \in Requests : procs'[r].op = "init"
                                        /\ procs'[r].status = "ok"}) <= 1]_vars

\* C18: an upload or delete request without a session token, or with one
\* that validateSession reports invalid, is answered Unauthorized and leaves
\* the photo records, the order list and the blobs as they were.
PhotoPart(store) ==
  [k \in {x \in DOMAIN store : x[1] \in {"photo:", "photos:list"}} |-> store[k]]

C18_GateRefuses ==
  [][(response'.op \in {"uploadPhoto", "deletePhoto"} /\ now' = now
        /\ (\/ response'.token = NoId
            \/ ~validateSession(kv, response'.token, now).valid))
       => /\ response'.status = "unauthorized"
          /\ r2' = r2
          /\ PhotoPart(kv') = PhotoPart(kv)]_vars

C18_Witness ==
  /\ response.op = "deletePhoto" /\ response.status = "unauthorized"
  /\ Issued(response.token)
  /\ ~KVhas(kv, SessionKey(response.token))
  /\ KVhas(kv, PhotoKey(response.id))
  /\ arrayIncludes(photoList, response.id)

\* C19: a login creates a session exactly when a credential is stored, the
\* identity is the stored one and the secret is the one the verifier was
\* made from; otherwise it reports invalid credentials and writes nothing.
C19_LoginIffCredentialsMatch ==
  [][(response'.op = "login" /\ now' = now) =>
       LET match == /\ KVhas(kv, ADMIN_CREDENTIALS)
                    /\ kv[ADMIN_CREDENTIALS].email = response'.email
                    /\ kv[ADMIN_CREDENTIALS].password.of = response'.password
           key == SessionKey(response'.token)
       IN  /\ response'.status = "ok" <=> match
           /\ match => /\ ~KVhas(kv, key) /\ KVhas(kv', key)
                        /\ kv'[key].email = response'.email
                        /\ kv' = KVput(kv, key, kv'[key])
           /\ ~match => response'.status = "invalid" /\ kv' = kv]_vars

C19_Witness ==
  /\ response.op = "login" /\ response.status = "invalid"
  /\ KVhas(kv, ADMIN_CREDENTIALS)
  /\ kv[ADMIN_CREDENTIALS].password.of = response.password
  /\ kv[ADMIN_CREDENTIALS].email # response.email

\* ------------------------------------------------- claims on partial writes
\* C21: in every state, intermediate states of uploads and states left by
\* an upload that failed part-way included, an id of the order list for
\* which no delete has started has its record and both blobs stored.
C21_ListedAfterStored ==
  \A i \in 1..Len(photoList) :
    ~DeleteAsked(photoList[i]) =>
      /\ KVhas(kv, PhotoKey(photoList[i]))
      /\ OriginalKey(photoList[i]) \in r2
      /\ ThumbnailKey(photoList[i]) \in r2

C21_Witness ==
  \E a, b, c \in Requests :
    /\ procs[a].op = "uploadPhoto" /\ Returned(a) /\ procs[a].status # "error"
    /\ photoList = <<procs[a].id>>
    /\ procs[b].op = "uploadPhoto" /\ procs[b].status = "error"
    /\ KVhas(kv, PhotoKey(procs[b].id))
    /\ procs[c].op = "uploadPhoto" /\ procs[c].pc = 3
    /\ ThumbnailKey(procs[c].id) \in r2

\* C22: an uploadPhoto in which store call f throws reports the error, keeps
\* the writes of the calls before f, makes none of the later ones and does
\* not list the id; when the order-list read or write threw, the record is
\* stored and unlisted.
C22_FailedUploadKeepsWrites ==
  [][(response'.op = "uploadPhoto" /\ Failed(response')) =>
       LET id == response'.id
           f == response'.failedCall
       IN  /\ r2' = (r2 \cup (IF f > 1 THEN {OriginalKey(id)} ELSE {}))
                        \cup (IF f > 2 THEN {ThumbnailKey(id)} ELSE {})
           /\ IF f > 3
              THEN /\ KVhas(kv', PhotoKey(id))
                   /\ kv'[PhotoKey(id)].id = id
                   /\ kv' = KVput(kv, PhotoKey(id), kv'[PhotoKey(id)])
              ELSE kv' = kv
           /\ photoListOf(kv') = photoListOf(kv)
           /\ ~arrayIncludes(photoListOf(kv'), id)
           /\ uploadLog' = uploadLog]_vars

C22_Witness ==
  /\ response.op = "uploadPhoto" /\ response.failedCall = 5
  /\ KVhas(kv, PhotoKey(response.id))
  /\ {OriginalKey(response.id), ThumbnailKey(response.id)} \subseteq r2
  /\ Len(photoList) >= 1 /\ ~arrayIncludes(photoList, response.id)

\* C23: in every state left by a deletePhoto(id) that failed part-way, if a
\* getPhotos call can return the record of id then both blobs of id are
\* stored.
Visible(store, id) ==
  \E c \in Cursors, n \in Limits :
    arrayIncludes(idsOf(getPhotos(store, c, n).photos), id)

C23_FailedDeleteKeepsBlobsOfVisible ==
  (response.op = "deletePhoto" /\ Failed(response) /\ Visible(kv, response.id)) =>
    /\ OriginalKey(response.id) \in r2
    /\ ThumbnailKey(response.id) \in r2

\* C24: getPhotos raises no error when ids of its slice have no record; it
\* returns the records that exist for the ids of the slice, in slice order,
\* and computes hasMore and nextCursor from the slice of ids alone.
sliceStart ==
  IF response.cursor # NoId /\ arrayIncludes(photoList, response.cursor)
  THEN indexOf(photoList, response.cursor) + 1 ELSE 0
sliceEnd ==
  IF sliceStart + response.limit < Len(photoList)
  THEN sliceStart + response.limit ELSE Len(photoList)
sliceIds == IF sliceStart >= sliceEnd THEN <<>> ELSE SubSeq(photoList, sliceStart + 1, sliceEnd)

C24_MissingRecordsSkipped ==
  response.op = "getPhotos" =>
    /\ ~Failed(response)
    /\ taken = SelectSeq(sliceIds, LAMBDA id : KVhas(kv, PhotoKey(id)))
    /\ \A i \in 1..Len(response.photos) : response.photos[i] = kv[PhotoKey(taken[i])]
    /\ response.hasMore <=> sliceStart + response.limit < Len(photoList)
    /\ response.nextCursor = IF response.hasMore /\ sliceIds # <<>>
                             THEN sliceIds[Len(sliceIds)] ELSE NoId

C24_Witness ==
  /\ response.op = "getPhotos" /\ response.limit = 2
  /\ response.hasMore
  /\ Len(response.photos) = 1
  /\ ~KVhas(kv, PhotoKey(sliceIds[1]))
  /\ taken = <<sliceIds[2]>>
  /\ response.nextCursor = sliceIds[2]

\* C25: with a clock that does not go back, a token that was issued and
\* that validateSession reports invalid is reported invalid after every
\* further login, logout, session check and step of the clock.
C25_InvalidStaysInvalid ==
  [][\A t \in Tokens :
       (Issued(t) /\ ~validateSession(kv, t, now).valid)
         => ~validateSession(kv', t, now').valid]_vars

C25_Witness ==
  \E t \in Tokens :
    /\ Issued(t) /\ t \notin sessionLog.revoked
    /\ ~validateSession(kv, t, now).valid
    /\ response.op = "login" /\ response.status = "ok" /\ response.token # t
    /\ validateSession(kv, response.token, now).valid

\* C26: validateSession on an expired token (now >= expiresAt) removes
\* session:<token> and nothing else, on an absent or still-valid token it
\* changes nothing; deleteSession removes session:<token> and nothing else,
\* and changes nothing without error when the token is absent.
Expired(store, token, time) ==
  KVhas(store, SessionKey(token)) /\ time >= store[SessionKey(token)].expiresAt

C26_PurgeOnlyExpired ==
  [][/\ ValidateStep =>
          kv' = IF Expired(kv, response'.token, now)
                THEN KVdelete(kv, SessionKey(response'.token)) ELSE kv
     /\ (response'.op = "logout" /\ now' = now) =>
          /\ kv' = KVdelete(kv, SessionKey(response'.token))
          /\ ~KVhas(kv, SessionKey(response'.token)) => kv' = kv
          /\ response'.status = "ok"]_vars

\* C27: run one at a time, an upload puts its id in front of the order list
\* and a delete takes every occurrence of its id out of it; the other ids
\* keep their number and their relative order, and the records and blobs of
\* the other ids are unchanged.
ElementsOf(list) == {list[i] : i \in 1..Len(list)}
SameOrderOfOthers(before, after, id) ==
  /\ \A a \in Ids \ {id} : Occurrences(after, a) = Occurrences(before, a)
  /\ \A a, b \in (ElementsOf(before) \cup ElementsOf(after)) \ {id} :
       indexOf(before, a) < indexOf(before, b) <=> indexOf(after, a) < indexOf(after, b)
OthersUntouched(id) ==
  /\ \A a \in Ids \ {id} :
       /\ KVhas(kv', PhotoKey(a)) <=> KVhas(kv, PhotoKey(a))
       /\ KVhas(kv, PhotoKey(a)) => kv'[PhotoKey(a)] = kv[PhotoKey(a)]
       /\ OriginalKey(a) \in r2' <=> OriginalKey(a) \in r2
       /\ ThumbnailKey(a) \in r2' <=> ThumbnailKey(a) \in r2

C27_ListChangesOnlyAtId ==
  [][/\ response'.op = "uploadPhoto" =>
          /\ photoListOf(kv')[1] = response'.id
          /\ Len(photoListOf(kv')) = Len(photoListOf(kv)) + 1
          /\ Occurrences(photoListOf(kv'), response'.id) = 1
          /\ SameOrderOfOthers(photoListOf(kv), photoListOf(kv'), response'.id)
          /\ OthersUntouched(response'.id)
     /\ response'.op = "deletePhoto" =>
          /\ Occurrences(photoListOf(kv'), response'.id) = 0
          /\ Len(photoListOf(kv')) =
               Len(photoListOf(kv)) - Occurrences(photoListOf(kv), response'.id)
          /\ SameOrderOfOthers(photoListOf(kv), photoListOf(kv'), response'.id)
          /\ OthersUntouched(response'.id)]_vars

C27_Witness ==
  /\ response.op = "deletePhoto" /\ ~response.again
  /\ Len(uploadLog) = 3 /\ response.id = uploadLog[2]
  /\ photoList = <<uploadLog[3], uploadLog[1]>>
  /\ Cardinality(r2) = 4

\* ------------------------------------------ claims on interleaved requests
\* C28: under every interleaving of store calls, once a deletePhoto(id) has
\* returned that did not overlap the upload of id, no getPhotos or
\* searchPhotos call returns a record of id, also when a stale write of
\* photos:list has put id back.
DeleteCompleted(d) ==
  procs[d].op = "deletePhoto" /\ Returned(d) /\ procs[d].unfinished = {}

C28_DeletedStaysUnlisted ==
  \A d \in Requests :
    DeleteCompleted(d) => ~Listed(kv, procs[d].id)

C28_Witness ==
  \E d \in Requests :
    /\ DeleteCompleted(d)
    /\ arrayIncludes(photoList, procs[d].id)
    /\ Len(photoList) = 2
    /\ \A r \in Requests : Returned(r)

\* C29: with a fresh id for every upload, no id is twice in the order list
\* in any state of any interleaving of uploads and deletes.
C29_NoDuplicateInList ==
  \A id \in Ids : Occurrences(photoList, id) <= 1

C29_Witness ==
  \E a, b, d \in Requests :
    /\ procs[a].op = "uploadPhoto" /\ procs[b].op = "uploadPhoto" /\ a # b
    /\ Raced(a, b) /\ Returned(a) /\ Returned(b)
    /\ procs[d].op = "deletePhoto" /\ Returned(d) /\ procs[d].id = procs[a].id
    /\ photoList = <<procs[a].id>>

\* -------------------------------------------------- claims on paging (2)
\* C30: while only uploads that ran to their end, and no delete, happen
\* between the pages of a reader (limit >= 1), the reader holds after each
\* page the next ids of the order list as it was at the first page, in
\* order, none twice, none of the ids uploaded since, and all of them when
\* the chain ends.
C30_PagingStableUnderInserts ==
  (pager.calls > 0 /\ ~pager.deleted) =>
    LET n == pager.calls * pager.limit
    IN  /\ pager.photos =
             SubSeq(pager.first, 1, IF n < Len(pager.first) THEN n ELSE Len(pager.first))
        /\ \A id \in Ids : Occurrences(pager.photos, id) <= 1
        /\ ElementsOf(pager.photos) \subseteq ElementsOf(pager.first)
        /\ ~pager.hasMore => pager.photos = pager.first

C30_Witness ==
  /\ pager.calls = 2 /\ pager.writtenAt = 1 /\ ~pager.deleted
  /\ pager.limit = 1 /\ ~pager.hasMore
  /\ Len(pager.first) = 2 /\ pager.photos = pager.first
  /\ Len(photoList) = 3

\* ------------------------------------------- claims on the read endpoint
\* C31: a GET /api/photos request that carries a query (a non-empty q) or
\* a tags parameter (an empty one included) is answered with the records of
\* searchPhotos, hasMore = FALSE and no nextCursor, whatever its cursor and
\* however many records match; a request with neither is answered with the
\* page, nextCursor and hasMore of getPhotos for its cursor.
CarriesQueryOrTags ==
  (response.q.present /\ response.q.value # <<>>) \/ response.tagsParam.present

C31_SearchAnswerHasNoPaging ==
  response.op = "photos" =>
    IF CarriesQueryOrTags
    THEN /\ response.photos = searchPhotos(kv, queryOf(response.q),
                                          tagsOf(response.tagsParam), response.limit)
         /\ idsOf(response.photos) =
              SubSeq(matchingIds(queryOf(response.q), tagsOf(response.tagsParam)), 1,
                     Len(response.photos))
         /\ ~response.hasMore
         /\ response.nextCursor = NoId
    ELSE /\ response.photos = getPhotos(kv, response.cursor, response.limit).photos
         /\ response.nextCursor = getPhotos(kv, response.cursor, response.limit).nextCursor
         /\ response.hasMore = getPhotos(kv, response.cursor, response.limit).hasMore

C31_Witness ==
  /\ response.op = "photos"
  /\ ~response.q.present /\ response.tagsParam = SomeParam(<<>>)
  /\ response.cursor # NoId /\ response.limit = 1
  /\ Len(photoList) = 3 /\ photoList[1] = response.cursor
  /\ getPhotos(kv, response.cursor, response.limit).hasMore
  /\ ~response.hasMore /\ response.nextCursor = NoId
  /\ idsOf(response.photos) = <<response.cursor>>

====
